---- MODULE Spec2Model ----
(***************************************************************************)
(* Striped ring attention (yunchang/ring/stripe_flash_attn.py).            *)
(*                                                                         *)
(* P ranks of one process group each run the same call: an entry point,    *)
(* StripeFlashAttnFunc.forward, stripe_flash_attn_forward, and then        *)
(* StripeFlashAttnFunc.backward with stripe_flash_attn_backward.  Tensors  *)
(* live in a per-rank heap (mem) and the local variables of the code are   *)
(* references into it, so that aliasing (x.to(dtype) of a tensor that      *)
(* already has that dtype is the tensor itself) and transfers that are     *)
(* still in flight are part of the state.                                  *)
(*                                                                         *)
(* A tensor is [dtype, seqdim, rows]: rows is the sequence dimension       *)
(* (seqdim its axis); a row is a bag (a function from global sequence      *)
(* positions to counts) of the positions that were summed into it.  A row  *)
(* of K, V, Q or dout is the singleton bag of its own global position.  A  *)
(* row that was never written (torch.empty) is Poison; Poison absorbs      *)
(* every sum.                                                              *)
(***************************************************************************)
EXTENDS Integers, Sequences, FiniteSets, TLC

\* ---------------------------------------------------------------- bounds
MaxP == 3
SeqLen == 3

VARIABLES world_size, args, pc, step, loc, mem, comm, sendq, recvq, done,
          ctx, ret, trace, calls, stalled

vars == <<world_size, args, pc, step, loc, mem, comm, sendq, recvq, done,
          ctx, ret, trace, calls, stalled>>

Ranks == 0 .. world_size - 1
NPos == world_size * SeqLen
Pos == 0 .. NPos - 1

\* ------------------------------------------------------------------ rows
\* a bag of global positions: a function from the positions in it to their
\* (positive) counts
Zero == [g \in {} |-> 0]
One(g) == [x \in {g} |-> 1]
Poison == [x \in {0 - 1} |-> 1]
Count(b, g) == IF g \in DOMAIN b THEN b[g] ELSE 0
AddRow(x, y) ==
  IF x = Poison \/ y = Poison THEN Poison
  ELSE [g \in DOMAIN x \cup DOMAIN y |-> Count(x, g) + Count(y, g)]

RECURSIVE SumRows(_)
SumRows(s) == IF s = <<>> THEN Zero ELSE AddRow(Head(s), SumRows(Tail(s)))

\* --------------------------------------------------------------- tensors
MkT(dtype, seqdim, rows) ==
  [dtype |-> dtype, seqdim |-> seqdim, rows |-> rows]

\* global position of local row i (0-based) of the shard of rank r
GlobalPos(i, r) == i * world_size + r

\* the shard a rank is called with: q, k, v and dout of rank r
Shard(r, dtype) ==
  MkT(dtype, 1, [i \in 1 .. SeqLen |-> One(GlobalPos(i - 1, r))])

None == 0
NoT == MkT("none", 0, <<>>)

\* torch.empty_like(t): same shape and dtype, no row written
EmptyLike(t) == [t EXCEPT !.rows = [i \in 1 .. Len(t.rows) |-> Poison]]

\* t[..., lo:hi] along `axis` (rows lo..hi, 1-based inclusive); the other axes
\* (batch, heads, head_dim) are not modelled: a slice along one of them
\* keeps every row of the sequence
Slice(t, axis, lo, hi) ==
  IF axis = t.seqdim THEN [t EXCEPT !.rows = SubSeq(@, lo, hi)] ELSE t

\* x.to(dtype) on the heap m: x itself when it already has the dtype
\* (torch returns self), else a converted copy in a new buffer
ToDtype(m, x, dtype) ==
  IF m[x].dtype = dtype
  THEN [mem |-> m, res |-> x]
  ELSE [mem |-> Append(m, [m[x] EXCEPT !.dtype = dtype]), res |-> Len(m) + 1]

Min(a, b) == IF a < b THEN a ELSE b
Max(a, b) == IF a > b THEN a ELSE b

\* ------------------------------------------------ AttentionKernel (external)
\* last key row visible to query row a of Lq rows against Lk key rows
KernelHi(a, Lq, Lk, causal) ==
  IF causal = "True" THEN Min(Lk, a + Lk - Lq) ELSE Lk
\* first query row that sees key row b
KernelLo(b, Lq, Lk, causal) ==
  IF causal = "True" THEN Max(1, b - (Lk - Lq)) ELSE 1

\* block-level forward: out row a sums the visible V rows, lse row a the
\* visible K rows; lse comes back in (batch, heads, seq) layout
flash_attn_forward(q, k, v, causal) ==
  LET Lq == Len(q.rows)
      Lk == Len(k.rows)
      ok(a) == q.rows[a] # Poison /\ Len(v.rows) = Lk
  IN [out |-> MkT(q.dtype, 1,
                  [a \in 1 .. Lq |->
                     IF ok(a)
                     THEN SumRows(SubSeq(v.rows, 1, KernelHi(a, Lq, Lk, causal)))
                     ELSE Poison]),
      lse |-> MkT("float32", 2,
                  [a \in 1 .. Lq |->
                     IF ok(a)
                     THEN SumRows(SubSeq(k.rows, 1, KernelHi(a, Lq, Lk, causal)))
                     ELSE Poison])]

\* block-level backward: the rows it writes into the dq, dk and dv buffers
flash_attn_backward(dout, q, k, v, out, lse, causal) ==
  LET Lq == Len(q.rows)
      Lk == Len(k.rows)
      ok == /\ Len(dout.rows) = Lq /\ Len(out.rows) = Lq /\ Len(lse.rows) = Lq
            /\ Len(v.rows) = Lk
            /\ \A a \in 1 .. Lq : out.rows[a] # Poison /\ lse.rows[a] # Poison
  IN [dq |-> [a \in 1 .. Lq |->
                IF ok THEN SumRows(SubSeq(k.rows, 1, KernelHi(a, Lq, Lk, causal)))
                ELSE Poison],
      dk |-> [b \in 1 .. Lk |->
                IF ok THEN SumRows(SubSeq(q.rows, KernelLo(b, Lq, Lk, causal), Lq))
                ELSE Poison],
      dv |-> [b \in 1 .. Lk |->
                IF ok THEN SumRows(SubSeq(dout.rows, KernelLo(b, Lq, Lk, causal), Lq))
                ELSE Poison]]

\* ------------------------------------------------------ OnlineSoftmaxMerger
\* merge of two partial softmax rows: the union of what each one covers
MergeRow(x, y) == AddRow(x, y)

\* update_out_and_lse(out, lse, block_out, block_lse, slice_) on tensor
\* values; out = NoT is the empty accumulator; sliced: slice_ = [:, 1:]
update_out_and_lse(out, lse, block_out, block_lse, sliced) ==
  LET bl == [block_lse EXCEPT !.seqdim = 1]
      n == Len(block_out.rows)
  IN IF out = NoT
     THEN IF ~sliced
          THEN [out |-> [block_out EXCEPT !.dtype = "float32"], lse |-> bl]
          ELSE [out |-> MkT("float32", 1, <<Poison>> \o block_out.rows),
                lse |-> MkT("float32", 1, <<Poison>> \o bl.rows)]
     ELSE IF sliced
          THEN [out |-> [out EXCEPT !.rows =
                   [i \in 1 .. Len(out.rows) |->
                      IF i >= 2 /\ i - 1 <= n
                      THEN MergeRow(out.rows[i], block_out.rows[i - 1])
                      ELSE out.rows[i]]],
                lse |-> [lse EXCEPT !.rows =
                   [i \in 1 .. Len(lse.rows) |->
                      IF i >= 2 /\ i - 1 <= n
                      THEN MergeRow(lse.rows[i], bl.rows[i - 1])
                      ELSE lse.rows[i]]]]
          ELSE [out |-> [out EXCEPT !.rows =
                   [i \in 1 .. Len(out.rows) |->
                      IF i <= n THEN MergeRow(out.rows[i], block_out.rows[i])
                      ELSE Poison]],
                lse |-> [lse EXCEPT !.rows =
                   [i \in 1 .. Len(lse.rows) |->
                      IF i <= n THEN MergeRow(lse.rows[i], bl.rows[i])
                      ELSE Poison]]]

\* ----------------------------------------------------------------- RingComm
Succ(r) == (r + 1) % world_size
Pred(r) == (r + world_size - 1) % world_size

NewComm(group) == [group |-> group, ops |-> <<>>, committed |-> FALSE, reqs |-> {}]
NoComm == NewComm("unset")

\* send_recv(to_send, recv_tensor): queue a send of to_send to the next rank
\* and a receive from the previous rank into recv_tensor (a new empty
\* buffer when None); returns the receive buffer
send_recv(c, m, to_send, recv_tensor) ==
  LET fresh == recv_tensor = None
      res == IF fresh THEN Len(m) + 1 ELSE recv_tensor
  IN [comm |-> [c EXCEPT !.ops = Append(@, [send |-> to_send, recv |-> res])],
      mem |-> IF fresh THEN Append(m, EmptyLike(m[to_send])) ELSE m,
      res |-> res]

\* commit(): post every queued operation; base = operations this rank has
\* posted before.  Sends and receives are matched per (sender, receiver)
\* pair in posting order.
commit_comm(c, base) ==
  [c EXCEPT !.ops = <<>>, !.committed = TRUE,
            !.reqs = base + 1 .. base + Len(c.ops)]
commit_sends(sq, c) == sq \o [i \in 1 .. Len(c.ops) |-> c.ops[i].send]
commit_recvs(rq, c) ==
  rq \o [i \in 1 .. Len(c.ops) |-> [buf |-> c.ops[i].recv, batch |-> Len(rq) + 1]]

\* wait(): every request of the last commit is complete: what this rank
\* receives has arrived, and what it sends has been received by the next rank
wait_ready(r, c) ==
  c.committed => \A i \in c.reqs : i \in done[r] /\ i \in done[Succ(r)]
wait_comm(c) == [c EXCEPT !.committed = FALSE, !.reqs = {}]

Ev(op, chan, fn, s) == [op |-> op, chan |-> chan, fn |-> fn, step |-> s]

\* --------------------------------------------------------------- arguments
\* what a caller passes to an entry point; "omitted" takes the default
ParamNames == {"dropout_p", "softmax_scale", "causal", "window_size", "softcap",
               "alibi_slopes", "deterministic", "return_attn_probs", "group",
               "attn_type"}

\* a variant whose entry points default causal to True
DefaultCausalTrue ==
  [dropout_p |-> "0.0", softmax_scale |-> "None", causal |-> "True",
   window_size |-> "(-1,-1)", softcap |-> "0.0", alibi_slopes |-> "None",
   deterministic |-> "False", return_attn_probs |-> "False", group |-> "None",
   attn_type |-> "FA"]
\* the defaults of the three entry points (the same in all three)
Default ==
  [dropout_p |-> "0.0", softmax_scale |-> "None", causal |-> "False",
   window_size |-> "(-1,-1)", softcap |-> "0.0", alibi_slopes |-> "None",
   deterministic |-> "False", return_attn_probs |-> "False", group |-> "None",
   attn_type |-> "FA"]

\* the defaults of stripe_flash_attn_backward (lines 88-94); softmax_scale and
\* process_group have none
BackwardDefault ==
  [Default EXCEPT !.dropout_p = "0", !.causal = "True"]

EntryPoints == {"stripe_flash_attn_func", "stripe_flash_attn_kvpacked_func",
                "stripe_flash_attn_qkvpacked_func"}

Call(fn, dtype, given) ==
  [fn |-> fn, dtype |-> dtype,
   params |-> [n \in ParamNames |->
                 IF n \in DOMAIN given THEN given[n] ELSE "omitted"]]

ArgSet ==
  { Call("stripe_flash_attn_func", "float32",
         [causal |-> "True", attn_type |-> "TORCH"]),
    Call("stripe_flash_attn_kvpacked_func", "bfloat16",
         [causal |-> "True", softmax_scale |-> "0.5", dropout_p |-> "0.1",
          deterministic |-> "True", return_attn_probs |-> "True",
          group |-> "ring", window_size |-> "(8,0)", softcap |-> "30.0"]),
    Call("stripe_flash_attn_func", "float16", [group |-> "ring"]),
    Call("stripe_flash_attn_kvpacked_func", "bfloat16", [causal |-> "False"]),
    Call("stripe_flash_attn_qkvpacked_func", "float16",
         [causal |-> "True", alibi_slopes |-> "slopes"]),
    Call("stripe_flash_attn_qkvpacked_func", "float32",
         [alibi_slopes |-> "slopes", deterministic |-> "True"]),
    Call("stripe_flash_attn_backward", "float16",
         [causal |-> "False", softmax_scale |-> "0.5", group |-> "ring"]) }

HPNames == {"dropout_p", "softmax_scale", "causal", "window_size", "softcap",
            "alibi_slopes", "deterministic", "attn_type", "group"}
NoHP == [n \in HPNames |-> "unset"]

\* ------------------------------------------------------------------- state
LocNames == {"arg_q", "arg_k", "arg_v", "arg_out", "arg_lse",
             "q", "k", "v", "out", "lse", "next_k", "next_v",
             "dout", "softmax_lse", "softmax_lse_1",
             "dq", "dk", "dv", "next_dk", "next_dv",
             "dk_comm_buffer", "dv_comm_buffer",
             "block_dq_buffer", "block_dk_buffer", "block_dv_buffer"}

NoCtx == [saved |-> <<>>, hp |-> NoHP]

Init ==
  /\ world_size \in 1 .. MaxP
  /\ args \in ArgSet
  /\ pc = [r \in Ranks |-> "init"]
  /\ step = [r \in Ranks |-> 0]
  /\ loc = [r \in Ranks |->
              [ptr |-> [n \in LocNames |->
                          CASE n = "arg_q" -> 1 [] n = "arg_k" -> 2
                            [] n = "arg_v" -> 3 [] OTHER -> None],
               hp |-> NoHP, fhp |-> NoHP, return_softmax |-> "unset",
               shift_causal |-> FALSE]]
  /\ mem = [r \in Ranks |->
              <<Shard(r, args.dtype), Shard(r, args.dtype), Shard(r, args.dtype)>>]
  /\ comm = [r \in Ranks |->
               [comm |-> NoComm, kv_comm |-> NoComm, d_kv_comm |-> NoComm]]
  /\ sendq = [r \in Ranks |-> <<>>]
  /\ recvq = [r \in Ranks |-> <<>>]
  /\ done = [r \in Ranks |-> {}]
  /\ ctx = [r \in Ranks |-> NoCtx]
  /\ ret = [r \in Ranks |-> [fwd |-> <<>>, bwd |-> <<>>]]
  /\ trace = [r \in Ranks |-> <<>>]
  /\ calls = [r \in Ranks |-> <<>>]
  /\ stalled = [r \in Ranks |-> FALSE]

Running(r) == ~stalled[r]

Log(r, evs) == trace' = [trace EXCEPT ![r] = @ \o evs]

\* ------------------------------------------------------------ entry points
\* stripe_flash_attn_func / _kvpacked_func / _qkvpacked_func: apply the
\* defaults and hand everything to StripeFlashAttnFunc.apply
EntryPoint(r) ==
  /\ pc[r] = "init" /\ Running(r)
  /\ args.fn \in EntryPoints
  /\ LET P(n) == IF args.params[n] = "omitted" THEN Default[n] ELSE args.params[n]
     IN loc' = [loc EXCEPT ![r].hp = [n \in HPNames |-> P(n)],
                           ![r].return_softmax = P("return_attn_probs")]
  /\ pc' = [pc EXCEPT ![r] = "func_forward"]
  /\ Log(r, <<Ev("call", "", args.fn, 0)>>)
  /\ UNCHANGED <<world_size, args, step, mem, comm, sendq, recvq, done, ctx, ret,
                 calls, stalled>>

\* x.contiguous(): the views a packed entry point passes are copied
Contiguous(m, x, packed) ==
  IF packed THEN [mem |-> Append(m, m[x]), res |-> Len(m) + 1]
  ELSE [mem |-> m, res |-> x]

\* StripeFlashAttnFunc.forward up to the call of stripe_flash_attn_forward
FuncForward(r) ==
  /\ pc[r] = "func_forward" /\ Running(r)
  /\ LET hp == loc[r].hp
         scale == IF hp.softmax_scale = "None" THEN "head_dim**-0.5"
                  ELSE hp.softmax_scale
     IN IF hp.alibi_slopes # "None"
        THEN /\ pc' = [pc EXCEPT ![r] = "error"]
             /\ loc' = [loc EXCEPT ![r].hp.softmax_scale = scale]
             /\ Log(r, <<Ev("AssertionError", "", "StripeFlashAttnFunc.forward", 0)>>)
             /\ UNCHANGED mem
        ELSE LET kc == Contiguous(mem[r], loc[r].ptr.arg_k,
                                  args.fn # "stripe_flash_attn_func")
                 vc == Contiguous(kc.mem, loc[r].ptr.arg_v,
                                  args.fn # "stripe_flash_attn_func")
             IN /\ pc' = [pc EXCEPT ![r] = "fwd_start"]
                /\ mem' = [mem EXCEPT ![r] = vc.mem]
                /\ loc' = [loc EXCEPT ![r].hp.softmax_scale = scale,
                                      ![r].ptr.arg_k = kc.res,
                                      ![r].ptr.arg_v = vc.res]
                /\ Log(r, <<Ev("enter", "", "StripeFlashAttnFunc.forward", 0)>>)
  /\ UNCHANGED <<world_size, args, step, comm, sendq, recvq, done, ctx, ret,
                 calls, stalled>>

\* the hyperparameters StripeFlashAttnFunc.forward passes on (lines 222-235)
ForwardHP(hp) == [hp EXCEPT !.deterministic = "False"]

\* a variant without the assert
CausalAssertSkipped(causal) == FALSE
\* `assert causal` (lines 20-22 and 96-98) raises
CausalAssertFails(causal) == causal # "True"

\* ------------------------------------------------ stripe_flash_attn_forward
\* the call, the assert on causal, RingComm(process_group) and the locals
ForwardStart(r) ==
  /\ pc[r] = "fwd_start" /\ Running(r)
  /\ LET fhp == ForwardHP(loc[r].hp)
     IN IF CausalAssertFails(fhp.causal)
        THEN /\ pc' = [pc EXCEPT ![r] = "error"]
             /\ loc' = [loc EXCEPT ![r].fhp = fhp]
             /\ Log(r, <<Ev("enter", "", "stripe_flash_attn_forward", 0),
                         Ev("AssertionError", "", "stripe_flash_attn_forward", 0)>>)
             /\ UNCHANGED comm
        ELSE /\ pc' = [pc EXCEPT ![r] = "f_issue"]
             /\ comm' = [comm EXCEPT ![r].comm = NewComm(fhp.group)]
             /\ loc' = [loc EXCEPT ![r].fhp = fhp,
                                   ![r].ptr.q = loc[r].ptr.arg_q,
                                   ![r].ptr.k = loc[r].ptr.arg_k,
                                   ![r].ptr.v = loc[r].ptr.arg_v,
                                   ![r].ptr.out = None, ![r].ptr.lse = None,
                                   ![r].ptr.next_k = None, ![r].ptr.next_v = None]
             /\ Log(r, <<Ev("enter", "", "stripe_flash_attn_forward", 0),
                         Ev("RingComm", "comm", "stripe_flash_attn_forward", 0)>>)
  /\ step' = [step EXCEPT ![r] = 0]
  /\ UNCHANGED <<world_size, args, mem, sendq, recvq, done, ctx, ret, calls,
                 stalled>>

\* whether the fetch of the next K/V shards is issued in step s (line 31)
\* and whether it is waited for at the end of the step (line 69)
\* a variant that fetches in the last step too
FwdIssuesAlways(s) == TRUE
FwdIssues(s) == s + 1 # world_size
\* a variant that never waits for the fetch
FwdNeverWaits(s) == FALSE
FwdWaits(s) == s + 1 # world_size
\* a variant whose loop does not stop after world_size steps
FwdLoopForever(s) == TRUE
\* `for step in range(comm.world_size)` (line 30): there is a step s
FwdLoopContinues(s) == s < world_size

\* lines 31-34: the non-blocking fetch of the next K and V and its commit
FwdIssue(r) ==
  /\ pc[r] = "f_issue" /\ Running(r)
  /\ IF FwdIssues(step[r])
     THEN LET sk == send_recv(comm[r].comm, mem[r], loc[r].ptr.k, None)
              sv == send_recv(sk.comm, sk.mem, loc[r].ptr.v, None)
          IN /\ mem' = [mem EXCEPT ![r] = sv.mem]
             /\ loc' = [loc EXCEPT ![r].ptr.next_k = sk.res,
                                   ![r].ptr.next_v = sv.res]
             /\ comm' = [comm EXCEPT ![r].comm = commit_comm(sv.comm, Len(sendq[r]))]
             /\ sendq' = [sendq EXCEPT ![r] = commit_sends(@, sv.comm)]
             /\ recvq' = [recvq EXCEPT ![r] = commit_recvs(@, sv.comm)]
             /\ Log(r, <<Ev("send_recv", "comm", "fwd", step[r]),
                         Ev("send_recv", "comm", "fwd", step[r]),
                         Ev("commit", "comm", "fwd", step[r])>>)
     ELSE UNCHANGED <<mem, loc, comm, sendq, recvq, trace>>
  /\ pc' = [pc EXCEPT ![r] = "f_kernel"]
  /\ UNCHANGED <<world_size, args, step, done, ctx, ret, calls, stalled>>

\* a variant with the boundary step in Shifted mode
FwdFullStrict(s, rank) == s < rank
\* Full mode of the forward pass: the whole block (line 36)
FwdFull(s, rank) == s <= rank

\* the query rows of the kernel call: q (line 39) or q[:, 1:] (line 54)
FwdQ(t, full) == IF full THEN t ELSE Slice(t, 1, 2, Len(t.rows))
\* its key/value rows: k, v (lines 40-41) or k[:, :-1], v[:, :-1] (55-56)
FwdKV(t, full) == IF full THEN t ELSE Slice(t, 1, 1, Len(t.rows) - 1)
\* a variant that merges without the slice
FwdMergeWhole(full) == FALSE
\* whether the merge gets slice_ = [:, 1:] (lines 50 and 65-67)
FwdMergeSliced(full) == ~full

\* the value behind a reference (None is the empty accumulator)
Deref(m, x) == IF x = None THEN NoT ELSE m[x]

\* store value t behind reference x; a None reference gets a new buffer
Store(m, x, t) == IF x = None THEN Append(m, t) ELSE [m EXCEPT ![x] = t]
StoreRef(m, x) == IF x = None THEN Len(m) + 1 ELSE x

KernelCall(fn, s, shifted, dout, q, k, v, out, lse, hp) ==
  [fn |-> fn, step |-> s, shifted |-> shifted, dout |-> dout, q |-> q, k |-> k,
   v |-> v, out |-> out, lse |-> lse, hp |-> hp]

\* lines 36-67: the kernel on the block pair and the merge into (out, lse)
FwdKernel(r) ==
  /\ pc[r] = "f_kernel" /\ Running(r)
  /\ LET m == mem[r]
         p == loc[r].ptr
         full == FwdFull(step[r], r)
         qa == FwdQ(m[p.q], full)
         ka == FwdKV(m[p.k], full)
         va == FwdKV(m[p.v], full)
         blk == flash_attn_forward(qa, ka, va, loc[r].fhp.causal)
         upd == update_out_and_lse(Deref(m, p.out), Deref(m, p.lse),
                                   blk.out, blk.lse, FwdMergeSliced(full))
         m1 == Store(m, p.out, upd.out)
         m2 == Store(m1, p.lse, upd.lse)
     IN /\ mem' = [mem EXCEPT ![r] = m2]
        /\ loc' = [loc EXCEPT ![r].ptr.out = StoreRef(m, p.out),
                              ![r].ptr.lse = StoreRef(m1, p.lse)]
        /\ calls' = [calls EXCEPT ![r] =
                       Append(@, KernelCall("fwd", step[r], ~full, NoT, qa, ka, va,
                                            NoT, NoT, loc[r].fhp))]
  /\ Log(r, <<Ev("kernel", "", "fwd", step[r]), Ev("merge", "", "fwd", step[r])>>)
  /\ pc' = [pc EXCEPT ![r] = "f_wait"]
  /\ UNCHANGED <<world_size, args, step, comm, sendq, recvq, done, ctx, ret, stalled>>

\* lines 69-72 and the loop header: wait for the fetch, rotate k and v
FwdWait(r) ==
  /\ pc[r] = "f_wait" /\ Running(r)
  /\ IF FwdWaits(step[r])
     THEN /\ wait_ready(r, comm[r].comm)
          /\ comm' = [comm EXCEPT ![r].comm = wait_comm(@)]
          /\ loc' = [loc EXCEPT ![r].ptr.k = loc[r].ptr.next_k,
                                ![r].ptr.v = loc[r].ptr.next_v]
          /\ Log(r, <<Ev("wait", "comm", "fwd", step[r])>>)
     ELSE UNCHANGED <<comm, loc, trace>>
  /\ step' = [step EXCEPT ![r] = @ + 1]
  /\ pc' = [pc EXCEPT ![r] = IF FwdLoopContinues(step[r] + 1) THEN "f_issue"
                              ELSE "f_return"]
  /\ UNCHANGED <<world_size, args, mem, sendq, recvq, done, ctx, ret, calls, stalled>>

\* lines 74-76: cast out to the input precision, lse back to (batch, heads, seq)
FwdReturn(r) ==
  /\ pc[r] = "f_return" /\ Running(r)
  /\ LET p == loc[r].ptr
         o == ToDtype(mem[r], p.out, mem[r][p.q].dtype)
         l == Len(o.mem) + 1
     IN /\ mem' = [mem EXCEPT ![r] = Append(o.mem, [mem[r][p.lse] EXCEPT !.seqdim = 2])]
        /\ loc' = [loc EXCEPT ![r].ptr.arg_out = o.res, ![r].ptr.arg_lse = l]
  /\ pc' = [pc EXCEPT ![r] = "func_save"]
  /\ Log(r, <<Ev("return", "", "stripe_flash_attn_forward", step[r])>>)
  /\ UNCHANGED <<world_size, args, step, comm, sendq, recvq, done, ctx, ret, calls,
                 stalled>>

\* the hyperparameters put on ctx (lines 238-246)
SavedHP(hp) == hp
\* the tensors given to ctx.save_for_backward (line 237)
SavedTensors(p) == <<p.arg_q, p.arg_k, p.arg_v, p.arg_out, p.arg_lse>>
\* what forward returns (line 247)
ForwardResult(p, return_softmax) ==
  IF return_softmax = "True" THEN <<p.arg_out, p.arg_lse, None>> ELSE <<p.arg_out>>

\* StripeFlashAttnFunc.forward, lines 237-247: what is saved for backward
FuncSave(r) ==
  /\ pc[r] = "func_save" /\ Running(r)
  /\ LET p == loc[r].ptr
     IN /\ ctx' = [ctx EXCEPT ![r] =
                     [saved |-> SavedTensors(p), hp |-> SavedHP(loc[r].hp)]]
        /\ ret' = [ret EXCEPT ![r].fwd = ForwardResult(p, loc[r].return_softmax)]
  /\ pc' = [pc EXCEPT ![r] = "fwd_done"]
  /\ Log(r, <<Ev("save_for_backward", "", "StripeFlashAttnFunc.forward", 0)>>)
  /\ UNCHANGED <<world_size, args, step, loc, mem, comm, sendq, recvq, done, calls,
                 stalled>>

\* ----------------------------------------------- stripe_flash_attn_backward
\* a variant that passes deterministic=False as forward does
BackwardHPAsForward(c) == [c.hp EXCEPT !.deterministic = "False"]
\* the hyperparameters StripeFlashAttnFunc.backward passes on (lines 260-267)
BackwardHP(c) == c.hp
\* the gradient slots StripeFlashAttnFunc.backward returns (line 269)
BackwardResult(dq, dk, dv) ==
  <<dq, dk, dv, None, None, None, None, None, None, None, None, None, None>>

\* StripeFlashAttnFunc.backward, lines 250-268: the saved tensors and the
\* hyperparameters of ctx become the arguments of stripe_flash_attn_backward
FuncBackward(r) ==
  /\ pc[r] = "fwd_done" /\ Running(r)
  /\ LET sv == ctx[r].saved
     IN /\ mem' = [mem EXCEPT ![r] = Append(@, Shard(r, mem[r][sv[4]].dtype))]
        /\ loc' = [loc EXCEPT ![r].fhp = BackwardHP(ctx[r]),
                              ![r].ptr.dout = Len(mem[r]) + 1,
                              ![r].ptr.q = sv[1], ![r].ptr.k = sv[2],
                              ![r].ptr.v = sv[3], ![r].ptr.out = sv[4],
                              ![r].ptr.softmax_lse = sv[5]]
  /\ pc' = [pc EXCEPT ![r] = "bwd_start"]
  /\ Log(r, <<Ev("enter", "", "StripeFlashAttnFunc.backward", 0)>>)
  /\ UNCHANGED <<world_size, args, step, comm, sendq, recvq, done, ctx, ret, calls,
                 stalled>>

\* a direct call of stripe_flash_attn_backward (it is a plain function of the
\* module) with the arguments of args and its own defaults
DirectBackward(r) ==
  /\ pc[r] = "init" /\ Running(r)
  /\ args.fn = "stripe_flash_attn_backward"
  /\ LET P(n) == IF args.params[n] = "omitted" THEN BackwardDefault[n]
                 ELSE args.params[n]
         n == Len(mem[r])
     IN /\ mem' = [mem EXCEPT ![r] =
                     @ \o <<Shard(r, args.dtype), Shard(r, args.dtype),
                            [Shard(r, args.dtype) EXCEPT !.seqdim = 2]>>]
        /\ loc' = [loc EXCEPT ![r].fhp = [x \in HPNames |-> P(x)],
                              ![r].ptr.q = 1, ![r].ptr.k = 2, ![r].ptr.v = 3,
                              ![r].ptr.dout = n + 1, ![r].ptr.out = n + 2,
                              ![r].ptr.softmax_lse = n + 3]
  /\ pc' = [pc EXCEPT ![r] = "bwd_start"]
  /\ Log(r, <<Ev("call", "", args.fn, 0)>>)
  /\ UNCHANGED <<world_size, args, step, comm, sendq, recvq, done, ctx, ret, calls,
                 stalled>>

\* lines 96-108: the assert, the two RingComm, the locals and the three
\* per-step block buffers (torch.empty of the input dtype)
BackwardStart(r) ==
  /\ pc[r] = "bwd_start" /\ Running(r)
  /\ IF CausalAssertFails(loc[r].fhp.causal)
     THEN /\ pc' = [pc EXCEPT ![r] = "error"]
          /\ Log(r, <<Ev("enter", "", "stripe_flash_attn_backward", 0),
                      Ev("AssertionError", "", "stripe_flash_attn_backward", 0)>>)
          /\ UNCHANGED <<comm, loc, mem>>
     ELSE LET m == mem[r]
              p == loc[r].ptr
              n == Len(m)
          IN /\ pc' = [pc EXCEPT ![r] = "b_issue"]
             /\ comm' = [comm EXCEPT ![r].kv_comm = NewComm(loc[r].fhp.group),
                                     ![r].d_kv_comm = NewComm(loc[r].fhp.group)]
             /\ mem' = [mem EXCEPT ![r] =
                          m \o <<EmptyLike(m[p.q]), EmptyLike(m[p.k]), EmptyLike(m[p.v])>>]
             /\ loc' = [loc EXCEPT ![r].ptr.dq = None, ![r].ptr.dk = None,
                                   ![r].ptr.dv = None,
                                   ![r].ptr.next_dk = None, ![r].ptr.next_dv = None,
                                   ![r].ptr.next_k = None, ![r].ptr.next_v = None,
                                   ![r].ptr.dk_comm_buffer = None,
                                   ![r].ptr.dv_comm_buffer = None,
                                   ![r].ptr.block_dq_buffer = n + 1,
                                   ![r].ptr.block_dk_buffer = n + 2,
                                   ![r].ptr.block_dv_buffer = n + 3]
             /\ Log(r, <<Ev("enter", "", "stripe_flash_attn_backward", 0),
                         Ev("RingComm", "kv_comm", "stripe_flash_attn_backward", 0),
                         Ev("RingComm", "d_kv_comm", "stripe_flash_attn_backward", 0)>>)
  /\ step' = [step EXCEPT ![r] = 0]
  /\ UNCHANGED <<world_size, args, sendq, recvq, done, ctx, ret, calls, stalled>>

\* whether backward fetches the next K/V in step s (line 110) and waits for
\* it (line 184)
\* a variant that fetches in the last step too
BwdIssuesAlways(s) == TRUE
BwdIssues(s) == s + 1 # world_size
\* a variant that never waits for the K/V fetch
BwdNeverWaits(s) == FALSE
BwdWaits(s) == s + 1 # world_size
\* `for step in range(kv_comm.world_size)` (line 109): there is a step s
\* a variant whose loop ends one step early
BwdLoopShort(s) == s + 1 < world_size
BwdLoopContinues(s) == s < world_size

\* lines 110-113: the fetch of the next K and V on kv_comm
BwdIssue(r) ==
  /\ pc[r] = "b_issue" /\ Running(r)
  /\ IF BwdIssues(step[r])
     THEN LET sk == send_recv(comm[r].kv_comm, mem[r], loc[r].ptr.k, None)
              sv == send_recv(sk.comm, sk.mem, loc[r].ptr.v, None)
          IN /\ mem' = [mem EXCEPT ![r] = sv.mem]
             /\ loc' = [loc EXCEPT ![r].ptr.next_k = sk.res,
                                   ![r].ptr.next_v = sv.res]
             /\ comm' = [comm EXCEPT ![r].kv_comm = commit_comm(sv.comm, Len(sendq[r]))]
             /\ sendq' = [sendq EXCEPT ![r] = commit_sends(@, sv.comm)]
             /\ recvq' = [recvq EXCEPT ![r] = commit_recvs(@, sv.comm)]
             /\ Log(r, <<Ev("send_recv", "kv_comm", "bwd", step[r]),
                         Ev("send_recv", "kv_comm", "bwd", step[r]),
                         Ev("commit", "kv_comm", "bwd", step[r])>>)
     ELSE UNCHANGED <<mem, loc, comm, sendq, recvq, trace>>
  /\ pc' = [pc EXCEPT ![r] = "b_kernel"]
  /\ UNCHANGED <<world_size, args, step, done, ctx, ret, calls, stalled>>

\* a variant with the boundary step in Shifted mode
ShiftCausalInclusive(s, rank) == s >= rank
\* a variant that never shifts
ShiftCausalNever(s, rank) == FALSE
\* Shifted mode of the backward pass (line 115)
ShiftCausal(s, rank) == s > rank

\* the query-side arguments of the backward kernel: dout, q, out (lines
\* 120-121, 124) or their [:, 1:] (lines 144-145, 148)
BwdQ(t, shift) == IF shift THEN Slice(t, 1, 2, Len(t.rows)) ELSE t
\* k, v (lines 122-123) or k[:, :-1], v[:, :-1] (lines 146-147)
BwdKV(t, shift) == IF shift THEN Slice(t, 1, 1, Len(t.rows) - 1) ELSE t
\* softmax_lse (line 125) or softmax_lse[:, :, 1:] (lines 141, 149)
BwdLse(t, shift) == IF shift THEN Slice(t, 2, 2, Len(t.rows)) ELSE t
\* first row of block_dq_buffer the kernel writes (lines 126, 150)
\* a variant that never writes row 0
BwdDqSkipsRow0(shift) == 2
BwdDqLo(shift) == IF shift THEN 2 ELSE 1

\* rows lo.. of buffer x overwritten by rows
WriteRows(m, x, lo, rows) ==
  [m EXCEPT ![x].rows = [i \in 1 .. Len(@) |->
                           IF i >= lo /\ i - lo + 1 <= Len(rows)
                           THEN rows[i - lo + 1] ELSE @[i]]]

\* a variant that carries softmax_lse_1 over from the step before
LseCarried(prev) == prev
\* softmax_lse_1 = None at the start of every step (line 116)
LseAtStepStart(prev) == None

\* lines 115-161: the backward kernel into the block buffers
BwdKernel(r) ==
  /\ pc[r] = "b_kernel" /\ Running(r)
  /\ LET m == mem[r]
         p == loc[r].ptr
         shift_causal == ShiftCausal(step[r], r)
         da == BwdQ(m[p.dout], shift_causal)
         qa == BwdQ(m[p.q], shift_causal)
         ka == BwdKV(m[p.k], shift_causal)
         va == BwdKV(m[p.v], shift_causal)
         oa == BwdQ(m[p.out], shift_causal)
         lse_1 == LseAtStepStart(p.softmax_lse_1)
         lazy == shift_causal /\ lse_1 = None
         la == IF shift_causal /\ ~lazy THEN m[lse_1]
               ELSE BwdLse(m[p.softmax_lse], shift_causal)
         g == flash_attn_backward(da, qa, ka, va, oa, la, loc[r].fhp.causal)
         m0 == IF lazy THEN Append(m, la) ELSE m
         m1 == WriteRows(m0, p.block_dq_buffer, BwdDqLo(shift_causal), g.dq)
         m2 == WriteRows(m1, p.block_dk_buffer, 1, g.dk)
         m3 == WriteRows(m2, p.block_dv_buffer, 1, g.dv)
     IN /\ mem' = [mem EXCEPT ![r] = m3]
        /\ loc' = [loc EXCEPT ![r].shift_causal = shift_causal,
                              ![r].ptr.softmax_lse_1 =
                                 IF lazy THEN Len(m) + 1 ELSE lse_1]
        /\ calls' = [calls EXCEPT ![r] =
                       Append(@, KernelCall("bwd", step[r], shift_causal, da, qa, ka,
                                            va, oa, la, loc[r].fhp))]
        /\ Log(r, IF lazy
                  THEN <<Ev("lse_slice", "", "bwd", step[r]), Ev("kernel", "", "bwd", step[r])>>
                  ELSE <<Ev("kernel", "", "bwd", step[r])>>)
  /\ pc' = [pc EXCEPT ![r] = "b_accum"]
  /\ UNCHANGED <<world_size, args, step, comm, sendq, recvq, done, ctx, ret, stalled>>

\* a variant in which a + b takes the dtype of a
PromoteToFirst(a, b) == a
\* type promotion of a + b
Promote(a, b) == IF a = "float32" \/ b = "float32" THEN "float32" ELSE a

\* x[lo:hi] += y[lo:hi] in place
AddInPlace(m, x, y, lo, hi) ==
  [m EXCEPT ![x].rows = [i \in 1 .. Len(@) |->
                           IF lo <= i /\ i <= hi /\ i <= Len(m[y].rows)
                           THEN AddRow(@[i], m[y].rows[i]) ELSE @[i]]]

\* y + x as a new tensor
AddNew(m, y, x) ==
  MkT(Promote(m[y].dtype, m[x].dtype), m[x].seqdim,
      [i \in 1 .. Len(m[x].rows) |->
         IF i <= Len(m[y].rows) THEN AddRow(m[y].rows[i], m[x].rows[i]) ELSE Poison])

\* first row of dq that dq += block_dq_buffer touches (lines 169, 171)
AccumDqLo(shift) == IF shift THEN 2 ELSE 1
\* last row of dk, dv that the Shifted add touches: [:, :-1] (lines 181-182)
\* a variant that adds the last row too
AccumDkvAll(n) == n
AccumDkvHi(n) == n - 1

\* lines 163-171: the first step sets dq, dk, dv from the block buffers;
\* later steps add the block's dq to dq at the rows of the mode
BwdAccum(r) ==
  /\ pc[r] = "b_accum" /\ Running(r)
  /\ LET m == mem[r]
         p == loc[r].ptr
     IN IF p.dq = None
        THEN LET a == ToDtype(m, p.block_dq_buffer, "float32")
                 b == ToDtype(a.mem, p.block_dk_buffer, "float32")
                 c == ToDtype(b.mem, p.block_dv_buffer, "float32")
             IN /\ mem' = [mem EXCEPT ![r] = c.mem]
                /\ loc' = [loc EXCEPT ![r].ptr.dq = a.res, ![r].ptr.dk = b.res,
                                      ![r].ptr.dv = c.res]
                /\ pc' = [pc EXCEPT ![r] = "b_kvwait"]
        ELSE /\ mem' = [mem EXCEPT ![r] =
                          AddInPlace(m, p.dq, p.block_dq_buffer,
                                     AccumDqLo(loc[r].shift_causal),
                                     Len(m[p.dq].rows))]
             /\ loc' = loc
             /\ pc' = [pc EXCEPT ![r] = "b_dwait"]
  /\ Log(r, <<Ev("accum_dq", "", "bwd", step[r])>>)
  /\ UNCHANGED <<world_size, args, step, comm, sendq, recvq, done, ctx, ret, calls,
                 stalled>>

\* lines 172-182: wait for the gradient transfer of the previous step, take
\* what was received as dk, dv and add the block's dk, dv to it
BwdDWait(r) ==
  /\ pc[r] = "b_dwait" /\ Running(r)
  /\ wait_ready(r, comm[r].d_kv_comm)
  /\ LET m == mem[r]
         p == loc[r].ptr
         n == Len(m[p.next_dk].rows)
     IN IF ~loc[r].shift_causal
        THEN /\ mem' = [mem EXCEPT ![r] =
                          m \o <<AddNew(m, p.block_dk_buffer, p.next_dk),
                                 AddNew(m, p.block_dv_buffer, p.next_dv)>>]
             /\ loc' = [loc EXCEPT ![r].ptr.dk_comm_buffer = p.dk,
                                   ![r].ptr.dv_comm_buffer = p.dv,
                                   ![r].ptr.dk = Len(m) + 1,
                                   ![r].ptr.dv = Len(m) + 2]
        ELSE /\ mem' = [mem EXCEPT ![r] =
                          AddInPlace(AddInPlace(m, p.next_dk, p.block_dk_buffer, 1,
                                                AccumDkvHi(n)),
                                     p.next_dv, p.block_dv_buffer, 1, AccumDkvHi(n))]
             /\ loc' = [loc EXCEPT ![r].ptr.dk_comm_buffer = p.dk,
                                   ![r].ptr.dv_comm_buffer = p.dv,
                                   ![r].ptr.dk = p.next_dk,
                                   ![r].ptr.dv = p.next_dv]
  /\ comm' = [comm EXCEPT ![r].d_kv_comm = wait_comm(@)]
  /\ Log(r, <<Ev("wait", "d_kv_comm", "bwd", step[r]), Ev("accum_dkv", "", "bwd", step[r])>>)
  /\ pc' = [pc EXCEPT ![r] = "b_kvwait"]
  /\ UNCHANGED <<world_size, args, step, sendq, recvq, done, ctx, ret, calls, stalled>>

\* a variant that takes what the gradient channel received
RotatedFromGrad(p) == <<p.next_dk, p.next_dv>>
\* k = next_k; v = next_v (lines 186-187)
RotatedKV(p) == <<p.next_k, p.next_v>>

\* lines 184-187: wait for the K/V fetch and rotate k and v
BwdKVWait(r) ==
  /\ pc[r] = "b_kvwait" /\ Running(r)
  /\ IF BwdWaits(step[r])
     THEN /\ wait_ready(r, comm[r].kv_comm)
          /\ comm' = [comm EXCEPT ![r].kv_comm = wait_comm(@)]
          /\ loc' = [loc EXCEPT ![r].ptr.k = RotatedKV(loc[r].ptr)[1],
                                ![r].ptr.v = RotatedKV(loc[r].ptr)[2]]
          /\ Log(r, <<Ev("wait", "kv_comm", "bwd", step[r])>>)
     ELSE UNCHANGED <<comm, loc, trace>>
  /\ pc' = [pc EXCEPT ![r] = "b_dissue"]
  /\ UNCHANGED <<world_size, args, step, mem, sendq, recvq, done, ctx, ret, calls,
                 stalled>>

\* lines 189-191 and the loop header: send dk, dv on to the next rank
BwdDIssue(r) ==
  /\ pc[r] = "b_dissue" /\ Running(r)
  /\ LET p == loc[r].ptr
         sk == send_recv(comm[r].d_kv_comm, mem[r], p.dk, p.dk_comm_buffer)
         sv == send_recv(sk.comm, sk.mem, p.dv, p.dv_comm_buffer)
     IN /\ mem' = [mem EXCEPT ![r] = sv.mem]
        /\ loc' = [loc EXCEPT ![r].ptr.next_dk = sk.res, ![r].ptr.next_dv = sv.res]
        /\ comm' = [comm EXCEPT ![r].d_kv_comm = commit_comm(sv.comm, Len(sendq[r]))]
        /\ sendq' = [sendq EXCEPT ![r] = commit_sends(@, sv.comm)]
        /\ recvq' = [recvq EXCEPT ![r] = commit_recvs(@, sv.comm)]
  /\ Log(r, <<Ev("send_recv", "d_kv_comm", "bwd", step[r]),
              Ev("send_recv", "d_kv_comm", "bwd", step[r]),
              Ev("commit", "d_kv_comm", "bwd", step[r])>>)
  /\ step' = [step EXCEPT ![r] = @ + 1]
  /\ pc' = [pc EXCEPT ![r] = IF BwdLoopContinues(step[r] + 1) THEN "b_issue"
                              ELSE "b_final"]
  /\ UNCHANGED <<world_size, args, done, ctx, ret, calls, stalled>>

\* line 193: the final wait on the gradient channel
BwdFinalWait(r) ==
  /\ pc[r] = "b_final" /\ Running(r)
  /\ wait_ready(r, comm[r].d_kv_comm)
  /\ comm' = [comm EXCEPT ![r].d_kv_comm = wait_comm(@)]
  /\ Log(r, <<Ev("wait", "d_kv_comm", "bwd", step[r])>>)
  /\ pc' = [pc EXCEPT ![r] = "b_return"]
  /\ UNCHANGED <<world_size, args, step, loc, mem, sendq, recvq, done, ctx, ret,
                 calls, stalled>>

\* line 195 and StripeFlashAttnFunc.backward, line 269: the casts and the
\* gradient slots, one per input of forward
BwdReturn(r) ==
  /\ pc[r] = "b_return" /\ Running(r)
  /\ LET p == loc[r].ptr
         dt == mem[r][p.q].dtype
         a == ToDtype(mem[r], p.dq, dt)
         b == ToDtype(a.mem, p.next_dk, dt)
         c == ToDtype(b.mem, p.next_dv, dt)
     IN /\ mem' = [mem EXCEPT ![r] = c.mem]
        /\ ret' = [ret EXCEPT ![r].bwd = BackwardResult(a.res, b.res, c.res)]
  /\ Log(r, <<Ev("return", "", "stripe_flash_attn_backward", step[r])>>)
  /\ pc' = [pc EXCEPT ![r] = "done"]
  /\ UNCHANGED <<world_size, args, step, loc, comm, sendq, recvq, done, ctx, calls,
                 stalled>>

\* ----------------------------------------------------------------- network
\* one committed batch of receives of rank r completes: the matching sends
\* of the previous rank have been posted, and what is in the send buffers
\* at that moment is copied into the receive buffers
Batches(r) == {recvq[r][i].batch : i \in DOMAIN recvq[r] \ done[r]}
BatchIdx(r, b) == {i \in DOMAIN recvq[r] : recvq[r][i].batch = b}

RECURSIVE CopyAll(_, _, _, _)
CopyAll(m, src, rq, idx) ==
  IF idx = {} THEN m
  ELSE LET i == CHOOSE x \in idx : \A y \in idx : x <= y
       IN CopyAll([m EXCEPT ![rq[i].buf] = src[i]], src, rq, idx \ {i})

Deliver(r) ==
  \E b \in Batches(r) :
    LET idx == BatchIdx(r, b)
        s == Pred(r)
        payload == [i \in idx |-> mem[s][sendq[s][i]]]
    IN /\ \A i \in idx : i <= Len(sendq[s])
       /\ mem' = [mem EXCEPT ![r] = CopyAll(@, payload, recvq[r], idx)]
       /\ done' = [done EXCEPT ![r] = @ \cup idx]
       /\ UNCHANGED <<world_size, args, pc, step, loc, comm, sendq, recvq, ctx, ret,
                      trace, calls, stalled>>

Next ==
  \/ \E r \in Ranks : EntryPoint(r)
  \/ \E r \in Ranks : FuncForward(r)
  \/ \E r \in Ranks : ForwardStart(r)
  \/ \E r \in Ranks : FwdIssue(r)
  \/ \E r \in Ranks : FwdKernel(r)
  \/ \E r \in Ranks : FwdWait(r)
  \/ \E r \in Ranks : FwdReturn(r)
  \/ \E r \in Ranks : FuncSave(r)
  \/ \E r \in Ranks : FuncBackward(r)
  \/ \E r \in Ranks : DirectBackward(r)
  \/ \E r \in Ranks : BackwardStart(r)
  \/ \E r \in Ranks : BwdIssue(r)
  \/ \E r \in Ranks : BwdKernel(r)
  \/ \E r \in Ranks : BwdAccum(r)
  \/ \E r \in Ranks : BwdDWait(r)
  \/ \E r \in Ranks : BwdKVWait(r)
  \/ \E r \in Ranks : BwdDIssue(r)
  \/ \E r \in Ranks : BwdFinalWait(r)
  \/ \E r \in Ranks : BwdReturn(r)
  \/ \E r \in Ranks : Deliver(r)

Spec == Init /\ [][Next]_vars

\* every rank that can take a step eventually takes one, and every transfer
\* whose send and receive are both posted eventually completes
FairSpec == Init /\ [][Next]_vars /\ WF_vars(Next)

\* one rank stops taking steps (a crash, a hang) at any point before its call
\* has returned; transfers it has already posted may still complete
Stall(r) ==
  /\ \A q \in Ranks : ~stalled[q]
  /\ pc[r] \notin {"done", "error"}
  /\ stalled' = [stalled EXCEPT ![r] = TRUE]
  /\ UNCHANGED <<world_size, args, pc, step, loc, mem, comm, sendq, recvq, done,
                 ctx, ret, trace, calls>>

NextStall ==
  \/ Next
  \/ \E r \in Ranks : Stall(r)

StallSpec == Init /\ [][NextStall]_vars

\* ================================================================ properties
\* the rank whose shard a rank holds as K/V in step s of the ring
Owner(r, s) == (r + world_size * (s + 1) - s) % world_size
\* the bag with every position of S exactly once
Indicator(S) == [g \in S |-> 1]
\* rows lo..hi of the shard of rank o
ShardRows(o, lo, hi) == SubSeq(Shard(o, "any").rows, lo, hi)
\* how many events of one kind a rank has logged
TraceCount(r, op, chan, fn) ==
  Cardinality({i \in DOMAIN trace[r] :
                 trace[r][i].op = op /\ trace[r][i].chan = chan /\ trace[r][i].fn = fn})
\* the kernel calls of one pass
CallsOf(r, fn) == {i \in DOMAIN calls[r] : calls[r][i].fn = fn}
\* forward merges done by rank r
FwdMerges(r) == Cardinality(CallsOf(r, "fwd"))
InForwardLoop(r) == pc[r] \in {"f_issue", "f_kernel", "f_wait", "f_return"}

\* C1: forward causal coverage under striping.  After n merges, row i of the
\* running output (and of the running log-sum-exp) of rank r holds exactly
\* the global positions g <= i*P + r of the shards of the ranks (r - s) mod P,
\* s < n, each exactly once; after all P merges that is every g <= i*P + r,
\* once.  The K/V block a rank holds in step s is the shard of (r - s) mod P.
C1_ForwardCausalCoverage ==
  \A r \in Ranks :
    InForwardLoop(r) =>
      LET n == FwdMerges(r)
          owners == {Owner(r, t) : t \in 0 .. n - 1}
          p == loc[r].ptr
      IN /\ n = (IF pc[r] = "f_wait" THEN step[r] + 1 ELSE step[r])
         /\ pc[r] = "f_return" => n = world_size
         /\ pc[r] \in {"f_issue", "f_kernel"} =>
              /\ mem[r][p.k] = Shard(Owner(r, step[r]), args.dtype)
              /\ mem[r][p.v] = Shard(Owner(r, step[r]), args.dtype)
         /\ n > 0 =>
              \A i \in 0 .. SeqLen - 1 :
                LET want == Indicator({g \in Pos : /\ g <= GlobalPos(i, r)
                                                   /\ g % world_size \in owners})
                IN /\ mem[r][p.out].rows[i + 1] = want
                   /\ mem[r][p.lse].rows[i + 1] = want

\* a rank of the largest ring has merged all its steps and its last row
\* covers the whole sequence up to its own position
C1_Witness ==
  /\ world_size = MaxP
  /\ pc[0] = "f_return"
  /\ mem[0][loc[0].ptr.out].rows[SeqLen] =
       Indicator({g \in Pos : g <= GlobalPos(SeqLen - 1, 0)})

\* C2: when stripe_flash_attn_backward has returned on rank r, the dK and dV
\* it returned belong to rank r's own K/V shard and hold exactly one
\* contribution of every rank's query block: row m is the sum, each once, of
\* the query (for dV: dout) positions g >= m*P + r of the whole sequence.
C2_DkvOwnShardAllContributions ==
  \A r \in Ranks :
    pc[r] = "done" =>
      \A m \in 0 .. SeqLen - 1 :
        LET want == Indicator({g \in Pos : g >= GlobalPos(m, r)})
        IN /\ mem[r][ret[r].bwd[2]].rows[m + 1] = want
           /\ mem[r][ret[r].bwd[3]].rows[m + 1] = want

\* the value a parameter of the entry point has after its default is applied
Resolved(n) ==
  IF args.params[n] = "omitted" THEN Default[n] ELSE args.params[n]
\* events of a ring step: channel creation, transfers, kernel, accumulators
RingOps == {"RingComm", "send_recv", "commit", "wait", "kernel", "merge",
            "lse_slice", "accum_dq", "accum_dkv", "save_for_backward"}
Entered(r, fn) ==
  \E i \in DOMAIN trace[r] : trace[r][i].op = "enter" /\ trace[r][i].fn = fn
BeforeRing(r) == pc[r] \in {"init", "func_forward", "fwd_start", "bwd_start", "error"}

\* C3: misconfiguration is reported before any ring step.  A rank that ended
\* in the configuration error has created no ring channel, issued no
\* send_recv or commit, called no kernel, updated no accumulator and saved
\* nothing for backward; with alibi_slopes given it never entered
\* stripe_flash_attn_forward; and no rank gets past the start of either pass
\* with causal not true or, through an entry point, with alibi_slopes given.
C3_MisconfigurationBeforeRing ==
  \A r \in Ranks :
    /\ pc[r] = "error" =>
         /\ \A i \in DOMAIN trace[r] : trace[r][i].op \notin RingOps
         /\ comm[r] = [comm |-> NoComm, kv_comm |-> NoComm, d_kv_comm |-> NoComm]
         /\ sendq[r] = <<>> /\ recvq[r] = <<>> /\ calls[r] = <<>>
         /\ ctx[r] = NoCtx /\ ret[r] = [fwd |-> <<>>, bwd |-> <<>>]
         /\ (args.fn \in EntryPoints /\ Resolved("alibi_slopes") # "None")
              => ~Entered(r, "stripe_flash_attn_forward")
    /\ ~BeforeRing(r) =>
         /\ loc[r].fhp.causal = "True"
         /\ args.fn \in EntryPoints => Resolved("alibi_slopes") = "None"
    /\ (args.fn \in EntryPoints /\ Resolved("alibi_slopes") # "None")
         => pc[r] \in {"init", "func_forward", "error"}
    /\ (args.fn \in EntryPoints /\ Resolved("causal") # "True")
         => BeforeRing(r)
    /\ (args.fn = "stripe_flash_attn_backward" /\ args.params.causal = "False")
         => BeforeRing(r)

\* every rank of a ring of more than one rank has failed the assert on causal
\* inside stripe_flash_attn_forward
C3_Witness ==
  /\ world_size > 1
  /\ \A r \in Ranks :
       /\ pc[r] = "error"
       /\ loc[r].fhp.causal = "False"
       /\ Entered(r, "stripe_flash_attn_forward")

\* C4: a Shifted forward step (step > rank) leaves row 0 of the running
\* output and log-sum-exp as it was, and merges into rows [1, end) the block
\* result of query rows [1, end) against key/value rows [0, end-1).
C4_ShiftedLeavesRowZero ==
  [][\A r \in Ranks :
       (pc[r] = "f_kernel" /\ pc'[r] = "f_wait" /\ step[r] > r) =>
         LET p == loc[r].ptr
             n == Len(mem[r][p.q].rows)
             c == calls'[r][Len(calls'[r])]
             blk == flash_attn_forward(c.q, c.k, c.v, "True")
         IN /\ p.out # None /\ p.lse # None
            /\ loc'[r].ptr.out = p.out /\ loc'[r].ptr.lse = p.lse
            /\ c.q.rows = SubSeq(mem[r][p.q].rows, 2, n)
            /\ c.k.rows = SubSeq(mem[r][p.k].rows, 1, n - 1)
            /\ c.v.rows = SubSeq(mem[r][p.v].rows, 1, n - 1)
            /\ mem'[r][p.out].rows[1] = mem[r][p.out].rows[1]
            /\ mem'[r][p.lse].rows[1] = mem[r][p.lse].rows[1]
            /\ \A i \in 2 .. n :
                 /\ mem'[r][p.out].rows[i] =
                      AddRow(mem[r][p.out].rows[i], blk.out.rows[i - 1])
                 /\ mem'[r][p.lse].rows[i] =
                      AddRow(mem[r][p.lse].rows[i], blk.lse.rows[i - 1])
                 /\ blk.out.rows[i - 1] = SumRows(SubSeq(mem[r][p.v].rows, 1, i - 1))
    ]_vars

\* rank 0 of a ring of more than one rank has just done a Shifted step
C4_Witness ==
  /\ world_size > 1
  /\ pc[0] = "f_wait" /\ step[0] > 0
  /\ calls[0][Len(calls[0])].shifted
  /\ Len(calls[0][Len(calls[0])].q.rows) = SeqLen - 1

\* steps in which a rank has logged an event of one kind
StepsOf(r, op, chan, fn) ==
  {trace[r][i].step : i \in {j \in DOMAIN trace[r] :
      trace[r][j].op = op /\ trace[r][j].chan = chan /\ trace[r][j].fn = fn}}
ForwardLoopDone(r) ==
  /\ args.fn \in EntryPoints
  /\ pc[r] \in {"f_return", "func_save", "fwd_done", "bwd_start", "b_issue",
                "b_kernel", "b_accum", "b_dwait", "b_kvwait", "b_dissue",
                "b_final", "b_return", "done"}
BackwardLoopDone(r) == pc[r] \in {"b_final", "b_return", "done"}

\* C5: exactly P ring steps in forward and in backward.  When the loop of a
\* pass is over, the rank has called the kernel exactly P times, once per
\* step 0..P-1, and has fetched K/V (two send_recv, one commit, one wait) in
\* exactly the steps 0..P-2; and the K/V of every kernel call of step s is
\* the shard of rank (r - s) mod P.
C5_ExactlyPSteps ==
  \A r \in Ranks :
    /\ \A i \in DOMAIN calls[r] :
         LET c == calls[r][i]
             o == Owner(r, c.step)
             hi == IF c.shifted THEN SeqLen - 1 ELSE SeqLen
         IN /\ c.step \in 0 .. world_size - 1
            /\ c.k.rows = ShardRows(o, 1, hi)
            /\ c.v.rows = ShardRows(o, 1, hi)
            /\ \A j \in DOMAIN calls[r] :
                 (calls[r][j].fn = c.fn /\ calls[r][j].step = c.step) => j = i
    /\ ForwardLoopDone(r) =>
         /\ {calls[r][i].step : i \in CallsOf(r, "fwd")} = 0 .. world_size - 1
         /\ TraceCount(r, "kernel", "", "fwd") = world_size
         /\ TraceCount(r, "send_recv", "comm", "fwd") = 2 * (world_size - 1)
         /\ TraceCount(r, "commit", "comm", "fwd") = world_size - 1
         /\ TraceCount(r, "wait", "comm", "fwd") = world_size - 1
         /\ StepsOf(r, "commit", "comm", "fwd") = 0 .. world_size - 2
         /\ StepsOf(r, "wait", "comm", "fwd") = 0 .. world_size - 2
    /\ BackwardLoopDone(r) =>
         /\ {calls[r][i].step : i \in CallsOf(r, "bwd")} = 0 .. world_size - 1
         /\ TraceCount(r, "kernel", "", "bwd") = world_size
         /\ TraceCount(r, "send_recv", "kv_comm", "bwd") = 2 * (world_size - 1)
         /\ TraceCount(r, "commit", "kv_comm", "bwd") = world_size - 1
         /\ TraceCount(r, "wait", "kv_comm", "bwd") = world_size - 1
         /\ StepsOf(r, "commit", "kv_comm", "bwd") = 0 .. world_size - 2
         /\ StepsOf(r, "wait", "kv_comm", "bwd") = 0 .. world_size - 2

\* the last rank of the largest ring has returned from backward
C5_Witness ==
  /\ world_size = MaxP
  /\ pc[MaxP - 1] = "done"
  /\ Cardinality(CallsOf(MaxP - 1, "bwd")) = MaxP

\* ---- progress of a rank: its position in the code, steps counted
PcOrder == <<"init", "func_forward", "fwd_start", "f_issue", "f_kernel", "f_wait",
             "f_return", "func_save", "fwd_done", "bwd_start", "b_issue",
             "b_kernel", "b_accum", "b_dwait", "b_kvwait", "b_dissue", "b_final",
             "b_return", "done", "error">>
PcIndex(p) == CHOOSE i \in DOMAIN PcOrder : PcOrder[i] = p
InBackward(r) == PcIndex(pc[r]) > PcIndex("bwd_start")
Progress(r) ==
  (IF InBackward(r) THEN (world_size + 1) * Len(PcOrder) ELSE 0)
    + step[r] * Len(PcOrder) + PcIndex(pc[r])
RECURSIVE ProgressSum(_)
ProgressSum(n) ==
  IF n = 0 THEN 0
  ELSE Progress(n - 1) + Cardinality(done[n - 1]) + ProgressSum(n - 1)
\* what has happened so far: the ranks' progress and the completed transfers
Variant == ProgressSum(world_size)
Returned(r) == pc[r] \in {"done", "error"}
\* transfers a rank posts in one forward and backward: 2(P-1) + 2(P-1) + 2P
MaxPosted == 6 * world_size - 4

\* the wait a rank is at, if any, has everything it waits for
WaitReady(r) ==
  /\ (pc[r] = "f_wait" /\ FwdWaits(step[r])) => wait_ready(r, comm[r].comm)
  /\ pc[r] \in {"b_dwait", "b_final"} => wait_ready(r, comm[r].d_kv_comm)
  /\ (pc[r] = "b_kvwait" /\ BwdWaits(step[r])) => wait_ready(r, comm[r].kv_comm)
\* a posted batch of receives of rank r whose sends are posted too
Deliverable(r) ==
  \E b \in Batches(r) : \A i \in BatchIdx(r, b) : i <= Len(sendq[Pred(r)])
\* some rank is not blocked in a wait, or some transfer can complete
CanStep ==
  \E r \in Ranks : (~Returned(r) /\ Running(r) /\ WaitReady(r)) \/ Deliverable(r)

\* C6: termination without deadlock.  With every rank running the same call
\* and every transfer completing once its send and its receive are posted,
\* (1) in every reachable state either every rank has returned or a rank or
\* a posted transfer can take a step (no state has every rank blocked in a
\* wait with nothing left to complete), (2) every step increases Variant,
\* and (3) Variant is bounded: no rank goes beyond step P and no more than
\* 6P - 4 transfers are posted.  So a run in which whatever can step does
\* step ends, and it ends with every rank returned, after step P-1.
C6_TerminationWithoutDeadlock ==
  /\ [](/\ (\A r \in Ranks : Returned(r)) \/ CanStep
        /\ \A r \in Ranks :
             /\ step[r] <= world_size
             /\ pc[r] \in {"f_return", "b_final", "b_return", "done"}
                  => step[r] = world_size
             /\ done[r] \subseteq DOMAIN recvq[r]
             /\ Len(recvq[r]) <= MaxPosted)
  /\ [][Variant' > Variant]_vars

\* every rank of the largest ring has returned from backward
C6_Witness ==
  /\ world_size = MaxP
  /\ \A r \in Ranks : pc[r] = "done" /\ step[r] = MaxP
  /\ ~CanStep

\* ---- a stalled peer (StallSpec)
\* stripe_flash_attn_forward has returned on rank r
FwdCompleted(r) == args.fn \in EntryPoints /\ PcIndex(pc[r]) > PcIndex("f_return")
                     /\ pc[r] # "error"
\* stripe_flash_attn_backward has returned on rank r
BwdCompleted(r) == pc[r] = "done"
\* commits of rank r in its forward call, and in its backward call
FwdCommits(r) == TraceCount(r, "commit", "comm", "fwd")
BwdCommits(r) ==
  TraceCount(r, "commit", "kv_comm", "bwd") + TraceCount(r, "commit", "d_kv_comm", "bwd")

\* C7 as stated: for P >= 2, once a rank has stalled before its forward
\* (backward) call returned, no rank of the ring completes its forward
\* (backward) call.
C7_StalledPeerBlocksAll ==
  [][\A r, q \in Ranks :
       (world_size >= 2 /\ stalled[r]) =>
         /\ ~FwdCompleted(r) => (FwdCompleted(q)' => FwdCompleted(q))
         /\ ~BwdCompleted(r) => (BwdCompleted(q)' => BwdCompleted(q))
    ]_vars

\* C7 amended: for P >= 2, a rank that stalls before the first commit of its
\* forward (backward) call keeps every rank from completing that call, and a
\* rank that stalls before the last commit of the call keeps its successor
\* from completing it.  A rank that stalls after its last commit of the call
\* blocks nobody in it: once nothing can step any more, every other rank has
\* completed the call.
C7_StalledBeforeCommitBlocks ==
  \A r \in Ranks :
    (world_size >= 2 /\ stalled[r] /\ args.fn \in EntryPoints) =>
      /\ FwdCommits(r) = 0 => \A q \in Ranks : ~FwdCompleted(q)
      /\ FwdCommits(r) < world_size - 1 => ~FwdCompleted(Succ(r))
      /\ BwdCommits(r) = 0 => \A q \in Ranks : ~BwdCompleted(q)
      /\ BwdCommits(r) < 2 * world_size - 1 => ~BwdCompleted(Succ(r))
      /\ (~CanStep /\ FwdCommits(r) = world_size - 1)
           => \A q \in Ranks \ {r} : FwdCompleted(q)
      /\ (~CanStep /\ BwdCommits(r) = 2 * world_size - 1)
           => \A q \in Ranks \ {r} : BwdCompleted(q)

\* a rank of the largest ring stalled in backward before its last commit, the
\* other ranks went as far as they can, and its successor is blocked in the
\* final wait
C7_Witness ==
  /\ world_size = MaxP
  /\ \E r \in Ranks :
       /\ stalled[r]
       /\ FwdCompleted(r)
       /\ BwdCommits(r) = 2 * world_size - 2
       /\ pc[Succ(r)] = "b_final"
       /\ ~wait_ready(Succ(r), comm[Succ(r)].d_kv_comm)
  /\ ~CanStep

\* C8: with P = 1 the single forward step is Full mode on the whole local
\* Q, K and V, the running accumulator is empty before it and is the block
\* result after it (the merge is an assignment), and forward issues no
\* send_recv, commit or wait.
C8_SingleRankPureAssignment ==
  world_size = 1 =>
    LET p == loc[0].ptr
        whole == Shard(0, args.dtype)
        blk == flash_attn_forward(whole, whole, whole, "True")
    IN /\ \A i \in DOMAIN trace[0] :
            trace[0][i].fn = "fwd" =>
              trace[0][i].op \notin {"send_recv", "commit", "wait"}
       /\ comm[0].comm.ops = <<>> /\ ~comm[0].comm.committed
       /\ ~ForwardLoopDone(0) => sendq[0] = <<>> /\ recvq[0] = <<>>
       /\ pc[0] \in {"f_issue", "f_kernel"} =>
            /\ step[0] = 0
            /\ p.out = None /\ p.lse = None
            /\ CallsOf(0, "fwd") = {}
       /\ pc[0] \in {"f_wait", "f_return"} =>
            /\ Cardinality(CallsOf(0, "fwd")) = 1
            /\ ~calls[0][1].shifted
            /\ calls[0][1].q = whole /\ calls[0][1].k = whole /\ calls[0][1].v = whole
            /\ mem[0][p.out].rows = blk.out.rows
            /\ mem[0][p.lse].rows = blk.lse.rows
            /\ \A i \in 1 .. SeqLen :
                 mem[0][p.out].rows[i] = Indicator({g \in Pos : g <= i - 1})

\* the single rank has done its one step
C8_Witness ==
  /\ world_size = 1
  /\ pc[0] = "f_return"
  /\ step[0] = 1
  /\ calls[0][1].q = Shard(0, args.dtype)

\* what StripeFlashAttnFunc.forward was called with: the entry point's
\* arguments with the defaults applied and softmax_scale resolved
GivenHP ==
  [n \in HPNames |->
     IF n = "softmax_scale" /\ Resolved(n) = "None" THEN "head_dim**-0.5"
     ELSE Resolved(n)]
AfterSave(r) == args.fn \in EntryPoints /\ PcIndex(pc[r]) > PcIndex("func_save")
                  /\ pc[r] # "error"
\* the causal coverage of a whole shard (the output of forward for rank r)
CausalRows(r) ==
  [i \in 1 .. SeqLen |-> Indicator({g \in Pos : g <= GlobalPos(i - 1, r)})]

\* C9: the differentiable-operation boundary.  Forward saves exactly (q, k,
\* v, out, softmax_lse) and the hyperparameters it was called with
\* (softmax_scale resolved) and the group; backward hands the saved tensors,
\* unchanged, and exactly those hyperparameters and that group to
\* stripe_flash_attn_backward, so every backward kernel call runs with the
\* values forward was called with (they are the values of the forward
\* kernel calls too, except deterministic, which forward fixes to False) on
\* the ring of forward; and backward returns 13 slots, one per input of
\* forward, of which only those of q, k and v are not None.
C9_AutogradBoundary ==
  \A r \in Ranks :
    /\ ~AfterSave(r) => ctx[r] = NoCtx
    /\ AfterSave(r) =>
         LET sv == ctx[r].saved
             p == loc[r].ptr
         IN /\ Len(sv) = 5
            /\ sv = <<p.arg_q, p.arg_k, p.arg_v, p.arg_out, p.arg_lse>>
            /\ sv[1] = 1
            /\ mem[r][sv[1]] = Shard(r, args.dtype)
            /\ mem[r][sv[2]] = Shard(r, args.dtype)
            /\ mem[r][sv[3]] = Shard(r, args.dtype)
            /\ mem[r][sv[4]] = MkT(args.dtype, 1, CausalRows(r))
            /\ mem[r][sv[5]] = MkT("float32", 2, CausalRows(r))
            /\ ctx[r].hp = GivenHP
            /\ ret[r].fwd = IF Resolved("return_attn_probs") = "True"
                            THEN <<sv[4], sv[5], None>> ELSE <<sv[4]>>
            /\ pc[r] # "fwd_done" =>
                 /\ loc[r].fhp = GivenHP
                 /\ p.q = sv[1] /\ p.out = sv[4] /\ p.softmax_lse = sv[5]
                 /\ pc[r] = "bwd_start" => p.k = sv[2] /\ p.v = sv[3]
                 /\ mem[r][p.dout] = Shard(r, args.dtype)
            /\ PcIndex(pc[r]) > PcIndex("bwd_start") =>
                 /\ comm[r].kv_comm.group = GivenHP.group
                 /\ comm[r].d_kv_comm.group = GivenHP.group
                 /\ comm[r].comm.group = GivenHP.group
            /\ \A i \in DOMAIN calls[r] :
                 /\ calls[r][i].fn = "bwd" => calls[r][i].hp = GivenHP
                 /\ calls[r][i].fn = "fwd" =>
                      calls[r][i].hp = [GivenHP EXCEPT !.deterministic = "False"]
            /\ pc[r] = "done" =>
                 /\ Len(ret[r].bwd) = 13
                 /\ \A i \in 1 .. 13 : (ret[r].bwd[i] # None) <=> (i <= 3)
                 /\ \A i \in 1 .. 3 : mem[r][ret[r].bwd[i]].dtype = args.dtype
    /\ pc[r] # "done" => ret[r].bwd = <<>>

\* a call with deterministic=True, a softmax_scale and a group of its own has
\* gone through forward and backward
C9_Witness ==
  /\ world_size = MaxP
  /\ Resolved("deterministic") = "True"
  /\ Resolved("group") = "ring"
  /\ \A r \in Ranks : pc[r] = "done" /\ Len(ret[r].bwd) = 13

\* the forward call of a step, if it has been made
FwdCallAt(r, s) == {i \in CallsOf(r, "fwd") : calls[r][i].step = s}

\* C10: backward recomputes the pairing of forward.  The backward kernel
\* call of step s on rank r is Shifted exactly when s > r, exactly as the
\* forward call of step s was; it gets the same q, k and v rows as that
\* forward call (k and v of the shard of rank (r - s) mod P; query rows
\* [1, end) and key/value rows [0, end-1) when Shifted); and its dout, out
\* and log-sum-exp are those of the same query rows.
C10_BackwardSamePairing ==
  \A r \in Ranks :
    \A i \in CallsOf(r, "bwd") :
      LET b == calls[r][i]
          lo == IF b.shifted THEN 2 ELSE 1
          hi == IF b.shifted THEN SeqLen - 1 ELSE SeqLen
      IN /\ b.shifted <=> b.step > r
         /\ \E j \in FwdCallAt(r, b.step) :
              LET f == calls[r][j]
              IN /\ f.shifted = b.shifted
                 /\ f.q = b.q /\ f.k = b.k /\ f.v = b.v
         /\ b.q.rows = ShardRows(r, lo, SeqLen)
         /\ b.k.rows = ShardRows(Owner(r, b.step), 1, hi)
         /\ b.v.rows = ShardRows(Owner(r, b.step), 1, hi)
         /\ b.dout.rows = ShardRows(r, lo, SeqLen)
         /\ b.out.rows = SubSeq(CausalRows(r), lo, SeqLen)
         /\ b.lse.rows = SubSeq(CausalRows(r), lo, SeqLen)

\* rank 0 of the largest ring has made the Shifted backward call of the last
\* step
C10_Witness ==
  /\ world_size = MaxP
  /\ pc[0] = "b_accum"
  /\ step[0] = MaxP - 1
  /\ calls[0][Len(calls[0])].fn = "bwd"
  /\ calls[0][Len(calls[0])].shifted

\* ---- buffers of transfers that are committed and not yet waited for
ChannelNames == {"comm", "kv_comm", "d_kv_comm"}
SendBufs(r, ch) ==
  IF comm[r][ch].committed THEN {sendq[r][i] : i \in comm[r][ch].reqs} ELSE {}
RecvBufs(r, ch) ==
  IF comm[r][ch].committed THEN {recvq[r][i].buf : i \in comm[r][ch].reqs} ELSE {}
\* the channel whose wait() is the first thing the next statement of r does
WaitedNow(r) ==
  CASE pc[r] = "f_wait" -> {"comm"}
    [] pc[r] \in {"b_dwait", "b_final"} -> {"d_kv_comm"}
    [] pc[r] = "b_kvwait" -> {"kv_comm"}
    [] OTHER -> {}
InFlightSend(r) == UNION {SendBufs(r, ch) : ch \in ChannelNames \ WaitedNow(r)}
InFlightRecv(r) == UNION {RecvBufs(r, ch) : ch \in ChannelNames \ WaitedNow(r)}
\* the buffers the next statement of rank r reads
ReadsNow(r) ==
  LET p == loc[r].ptr
  IN (CASE pc[r] = "f_kernel" -> {p.q, p.k, p.v, p.out, p.lse}
        [] pc[r] = "f_return" -> {p.out, p.lse}
        [] pc[r] = "b_kernel" -> {p.dout, p.q, p.k, p.v, p.out, p.softmax_lse}
        [] pc[r] = "b_accum" -> {p.dq, p.block_dq_buffer, p.block_dk_buffer,
                                 p.block_dv_buffer}
        [] pc[r] = "b_dwait" -> {p.next_dk, p.next_dv, p.block_dk_buffer,
                                 p.block_dv_buffer}
        [] pc[r] = "b_return" -> {p.dq, p.next_dk, p.next_dv}
        [] OTHER -> {}) \ {None}
\* the buffers a step of rank r has written: those whose contents changed
Written(r) == {x \in DOMAIN mem[r] : mem'[r][x] # mem[r][x]}
\* a receive buffer of rank r whose transfer has been waited for
ReceivedBuf(r, x) ==
  \E i \in DOMAIN recvq[r] :
    /\ recvq[r][i].buf = x
    /\ i \in done[r]
    /\ x \notin InFlightRecv(r)

\* C11: buffer ownership across transfer and compute.  Between the commit of
\* a transfer and the wait for it, no statement of the rank reads or writes
\* its receive buffer or writes its send buffer; the k and v of every kernel
\* call are the rank's own shard or a receive buffer that has been waited
\* for; and the buffer backward hands to the gradient channel for reuse is
\* neither the buffer sent in that send_recv nor a buffer of a transfer that
\* is still in flight.
C11_BufferOwnership ==
  [][\A r \in Ranks :
       pc'[r] # pc[r] =>
         LET p == loc[r].ptr
         IN /\ ReadsNow(r) \cap InFlightRecv(r) = {}
            /\ Written(r) \cap (InFlightRecv(r) \cup InFlightSend(r)) = {}
            /\ pc[r] \in {"f_kernel", "b_kernel"} =>
                 /\ p.k = p.arg_k \/ ReceivedBuf(r, p.k)
                 /\ p.v = p.arg_v \/ ReceivedBuf(r, p.v)
            /\ (pc[r] = "b_dissue" /\ p.dk_comm_buffer # None) =>
                 /\ p.dk_comm_buffer # p.dk /\ p.dv_comm_buffer # p.dv
                 /\ {p.dk_comm_buffer, p.dv_comm_buffer}
                      \cap (InFlightRecv(r) \cup InFlightSend(r)) = {}
    ]_vars

\* the RingComm calls a rank has made on one channel, in program order
OnChannel(e, ch) == e.chan = ch /\ e.op \in {"send_recv", "commit", "wait"}
ChanSeq(r, ch) ==
  LET Test(e) == OnChannel(e, ch) IN SelectSeq(trace[r], Test)
\* one transfer of a channel: two send_recv, their commit, its wait
Round == <<"send_recv", "send_recv", "commit", "wait">>
\* the transfers of a whole pass on a channel
RoundsOf(ch) == IF ch = "d_kv_comm" THEN world_size ELSE world_size - 1
\* the pass of a channel has returned
PassReturned(r, ch) ==
  IF ch = "comm" THEN FwdCompleted(r) ELSE pc[r] \in {"b_return", "done"}
\* every transfer this rank posted is complete on both sides
AllComplete(r) ==
  \A i \in DOMAIN sendq[r] : i \in done[r] /\ i \in done[Succ(r)]

\* C12: every transfer is waited for exactly once.  On each channel of each
\* rank the calls are rounds of (send_recv, send_recv, commit, wait) in this
\* order: commits and waits alternate starting with a commit, nothing is
\* issued while a commit is un-waited, no wait without a commit.  A channel
\* is committed exactly between its commit and its wait, and then holds the
\* two transfers posted last on it.  When the pass returns the channel has
\* done P - 1 rounds (K/V) or P rounds (gradient), nothing is committed and
\* every posted transfer is complete.
C12_WaitedExactlyOnce ==
  \A r \in Ranks : \A ch \in ChannelNames :
    LET cs == ChanSeq(r, ch)
    IN /\ \A i \in DOMAIN cs : cs[i].op = Round[((i - 1) % 4) + 1]
       /\ comm[r][ch].committed <=> Len(cs) % 4 = 3
       /\ comm[r][ch].committed =>
            /\ Cardinality(comm[r][ch].reqs) = 2
            /\ comm[r][ch].reqs \subseteq DOMAIN sendq[r]
            /\ \A c2 \in ChannelNames \ {ch} :
                 comm[r][c2].committed => comm[r][c2].reqs \cap comm[r][ch].reqs = {}
       /\ comm[r][ch].ops = <<>>
       /\ Len(cs) <= 4 * RoundsOf(ch)
       /\ PassReturned(r, ch) =>
            /\ Len(cs) = 4 * RoundsOf(ch)
            /\ ~comm[r][ch].committed
            /\ ch # "comm" => AllComplete(r)
            /\ ch = "comm" => \A i \in 1 .. 2 * (world_size - 1) :
                                i \in done[r] /\ i \in done[Succ(r)]

C12_Witness ==
  /\ world_size = MaxP
  /\ \A r \in Ranks : pc[r] = "done"
  /\ Len(ChanSeq(0, "d_kv_comm")) = 4 * MaxP
  /\ Len(ChanSeq(0, "kv_comm")) = 4 * (MaxP - 1)

\* the gradient transfers of the shard of rank o: rank r sends, at the end of
\* step s (lines 189-191), the dk and dv of the shard it holds in step s
GradHops(o) ==
  {rs \in Ranks \X (0 .. world_size - 1) :
     /\ Owner(rs[1], rs[2]) = o
     /\ rs[2] \in StepsOf(rs[1], "commit", "d_kv_comm", "bwd")}
\* the ranks whose queries have gone into the dk, dv a rank holds at the
\* end of step s
Contributors(r, s) == {(r + world_size - j) % world_size : j \in 0 .. s}
\* dk or dv of the shard of rank o with the contributions of the ranks in C
PartialGrad(o, C) ==
  [m \in 1 .. SeqLen |->
     Indicator({g \in Pos : g >= GlobalPos(m - 1, o) /\ g % world_size \in C})]

\* C13 as stated: the gradient of a shard has been transferred exactly P - 1
\* times when backward returns on the owning rank.
C13_ExactlyPMinusOneHops ==
  \A o \in Ranks : pc[o] = "done" => Cardinality(GradHops(o)) = world_size - 1

\* C13, amended: the gradient of a shard is transferred exactly P times, once
\* at the end of each step 0 .. P-1, by the ranks o, o+1, .., o+P-1 in this
\* order; what a committed gradient transfer sends is the rank's dk and dv;
\* and (inputs below float32) the dk, dv a rank is about to send at the end
\* of step s are those of the shard of rank (r - s) mod P with the
\* contributions of exactly the s + 1 ranks it has visited.
C13_ExactlyPHops ==
  /\ \A o \in Ranks :
       /\ Cardinality(GradHops(o)) <= world_size
       /\ pc[o] \in {"b_return", "done"} =>
            /\ Cardinality(GradHops(o)) = world_size
            /\ \A s \in 0 .. world_size - 1 : <<(o + s) % world_size, s>> \in GradHops(o)
  /\ \A r \in Ranks :
       LET p == loc[r].ptr
           c == comm[r].d_kv_comm
       IN /\ c.committed => {sendq[r][i] : i \in c.reqs} = {p.dk, p.dv}
          /\ (pc[r] = "b_dissue" /\ args.dtype # "float32") =>
               LET want == PartialGrad(Owner(r, step[r]), Contributors(r, step[r]))
               IN mem[r][p.dk].rows = want /\ mem[r][p.dv].rows = want

C13_Witness ==
  /\ world_size = MaxP
  /\ pc[0] = "done"
  /\ Cardinality(GradHops(0)) = MaxP
  /\ args.dtype # "float32"

\* what the backward kernel call of the current step computed
LastBwd(r) ==
  LET c == calls[r][Len(calls[r])]
  IN flash_attn_backward(c.dout, c.q, c.k, c.v, c.out, c.lse, loc[r].fhp.causal)
\* rows lo..hi of x' are those of x plus those of y, the others those of x
AddedAt(xnew, x, y, lo, hi) ==
  /\ Len(xnew) = Len(x)
  /\ \A i \in DOMAIN x :
       xnew[i] = IF lo <= i /\ i <= hi THEN AddRow(y[i], x[i]) ELSE x[i]

IsCommit(e) == e.op = "commit"
PostOf(r, i) == SelectSeq(trace[r], IsCommit)[(i + 1) \div 2]
\* the two transfers of the commit a channel is waiting for, in order
ReqLo(c) == CHOOSE i \in c.reqs : \A j \in c.reqs : i <= j
\* the buffers a step appends to a queue
Posted(qnew, q) == SubSeq(qnew, Len(q) + 1, Len(qnew))
RecvBufsPosted(qnew, q) ==
  [i \in 1 .. Len(qnew) - Len(q) |-> qnew[Len(q) + i].buf]

Written0(t) == \A i \in DOMAIN t.rows : t.rows[i] # Poison

\* C16: step 0 is Full on every rank, so every accumulator starts from a
\* completely written block.  Forward: the merge meets an empty (out, lse)
\* in step 0 only, that merge is not sliced, its block comes from the whole
\* q, k, v, and the out, lse it leaves have every row written; a sliced merge
\* always meets a non-empty accumulator.  Backward: dq, dk, dv are unset in
\* step 0 only, the kernel call of step 0 is Full, and the block buffers
\* they are set from hold in every row what that call wrote.
C16_StepZeroFull ==
  [][\A r \in Ranks :
       LET p == loc[r].ptr
           q == loc'[r].ptr
           m == mem[r]
       IN /\ (pc[r] = "f_kernel" /\ pc'[r] # pc[r]) =>
               LET c == calls'[r][Len(calls'[r])]
               IN /\ (p.out = None) <=> (step[r] = 0)
                  /\ (p.lse = None) <=> (step[r] = 0)
                  /\ step[r] = 0 =>
                       /\ ~c.shifted /\ ~FwdMergeSliced(FwdFull(step[r], r))
                       /\ Len(c.q.rows) = SeqLen /\ Len(c.k.rows) = SeqLen
                       /\ Len(c.v.rows) = SeqLen
                       /\ mem'[r][q.out].rows = flash_attn_forward(c.q, c.k, c.v, "True").out.rows
                  /\ c.shifted => p.out # None /\ Written0(m[p.out]) /\ Written0(m[p.lse])
                  /\ Written0(mem'[r][q.out]) /\ Written0(mem'[r][q.lse])
                  /\ Len(mem'[r][q.out].rows) = SeqLen
          /\ (pc[r] = "b_kernel" /\ pc'[r] # pc[r]) =>
               /\ (p.dq = None) <=> (step[r] = 0)
               /\ step[r] = 0 => ~loc'[r].shift_causal /\ ~calls'[r][Len(calls'[r])].shifted
          /\ (pc[r] = "b_accum" /\ pc'[r] # pc[r]) =>
               /\ (p.dq = None) <=> (step[r] = 0)
               /\ (p.dq = None) <=> (pc'[r] = "b_kvwait")
               /\ p.dq = None =>
                    LET g == LastBwd(r)
                    IN /\ ~loc[r].shift_causal
                       /\ p.dk = None /\ p.dv = None
                       /\ Len(g.dq) = SeqLen /\ Len(g.dk) = SeqLen /\ Len(g.dv) = SeqLen
                       /\ m[p.block_dq_buffer].rows = g.dq
                       /\ m[p.block_dk_buffer].rows = g.dk
                       /\ m[p.block_dv_buffer].rows = g.dv
                       /\ Written0(m[p.block_dq_buffer])
                       /\ Written0(m[p.block_dk_buffer])
                       /\ Written0(m[p.block_dv_buffer])
                       /\ mem'[r][q.dq].rows = g.dq
                       /\ mem'[r][q.dk].rows = g.dk
                       /\ mem'[r][q.dv].rows = g.dv
    ]_vars

\* rank 0 of the largest ring, whose only Full step is step 0, has set dq,
\* dk, dv from the block buffers
C16_Witness ==
  /\ world_size = MaxP
  /\ pc[0] = "b_kvwait" /\ step[0] = 0
  /\ loc[0].ptr.dq # None
  /\ Written0(mem[0][loc[0].ptr.dq])
  /\ Written0(mem[0][loc[0].ptr.out])

\* the steps in which rank r has called the kernel of one pass in a mode
ModeSteps(r, fn, shifted) ==
  {calls[r][i].step : i \in {j \in CallsOf(r, fn) : calls[r][j].shifted = shifted}}
\* the loop of a pass is over
LoopDone(r, fn) == IF fn = "fwd" THEN ForwardLoopDone(r) ELSE BackwardLoopDone(r)

\* C17: the mode schedule.  In forward and in backward every kernel call of
\* rank r in a step s is Full when s <= r and Shifted when s > r, one call
\* per step; so no Full call follows a Shifted one, and when the loop is over
\* the Full steps are exactly 0..r and the Shifted steps exactly r+1..P-1
\* (r + 1 and P - 1 - r of them).  The last rank makes no Shifted call and
\* never takes the row-sliced softmax_lse.
C17_ModeSchedule ==
  \A r \in Ranks : \A fn \in {"fwd", "bwd"} :
    /\ \A i \in CallsOf(r, fn) :
         /\ calls[r][i].shifted <=> calls[r][i].step > r
         /\ \A j \in CallsOf(r, fn) :
              /\ i < j => calls[r][i].step < calls[r][j].step
              /\ (i < j /\ calls[r][i].shifted) => calls[r][j].shifted
    /\ LoopDone(r, fn) =>
         /\ ModeSteps(r, fn, FALSE) = 0 .. r
         /\ ModeSteps(r, fn, TRUE) = r + 1 .. world_size - 1
         /\ Cardinality(CallsOf(r, fn)) = world_size
    /\ r = world_size - 1 =>
         /\ ModeSteps(r, fn, TRUE) = {}
         /\ TraceCount(r, "lse_slice", "", "bwd") = 0
         /\ loc[r].ptr.softmax_lse_1 = None

C17_Witness ==
  /\ world_size = MaxP
  /\ \A r \in Ranks : pc[r] = "done"
  /\ ModeSteps(0, "bwd", TRUE) = {1, 2}
  /\ ModeSteps(1, "bwd", FALSE) = {0, 1}
  /\ ModeSteps(2, "fwd", FALSE) = {0, 1, 2}

\* the dtype of the tensor a local variable refers to; "unset" for None
DtypeOf(r, x) == IF x = None THEN "unset" ELSE mem[r][x].dtype
Full32(r, x) == DtypeOf(r, x) \in {"unset", "float32"}
InBackwardLoop(r) ==
  pc[r] \in {"b_issue", "b_kernel", "b_accum", "b_dwait", "b_kvwait", "b_dissue",
             "b_final", "b_return"}

\* C18: precision discipline.  While forward is in its loop the running out
\* and lse are float32; while backward is in its loop and up to the final
\* wait, dq, dk, dv, what the gradient channel sends and receives and its
\* reuse buffers are float32, in every step and after every add, while the
\* block buffers and the K/V transfers have the input precision.  After the
\* return the forward output and the three gradients have the input
\* precision.
C18_PrecisionDiscipline ==
  \A r \in Ranks :
    LET p == loc[r].ptr
    IN /\ InForwardLoop(r) =>
            /\ Full32(r, p.out) /\ Full32(r, p.lse)
            /\ (pc[r] \in {"f_wait", "f_return"} \/ step[r] > 0) =>
                 DtypeOf(r, p.out) = "float32"
       /\ FwdCompleted(r) => DtypeOf(r, p.arg_out) = args.dtype
       /\ InBackwardLoop(r) =>
            /\ \A x \in {p.dq, p.dk, p.dv, p.next_dk, p.next_dv,
                         p.dk_comm_buffer, p.dv_comm_buffer} : Full32(r, x)
            /\ (step[r] > 0 \/ pc[r] \in {"b_kvwait", "b_dissue"}) =>
                 /\ DtypeOf(r, p.dq) = "float32"
                 /\ DtypeOf(r, p.dk) = "float32"
                 /\ DtypeOf(r, p.dv) = "float32"
            /\ pc[r] = "b_return" =>
                 /\ DtypeOf(r, p.next_dk) = "float32"
                 /\ DtypeOf(r, p.next_dv) = "float32"
            /\ \A x \in {p.block_dq_buffer, p.block_dk_buffer, p.block_dv_buffer,
                         p.q, p.k, p.v, p.dout} :
                 DtypeOf(r, x) = args.dtype
       /\ \A i \in DOMAIN sendq[r] :
            LET want == IF PostOf(r, i).chan = "d_kv_comm" THEN "float32"
                        ELSE args.dtype
            IN /\ DtypeOf(r, sendq[r][i]) = want
               /\ DtypeOf(r, recvq[r][i].buf) = want
       /\ pc[r] = "done" =>
            \A i \in 1 .. 3 : DtypeOf(r, ret[r].bwd[i]) = args.dtype

\* the last rank, Full in every step, after the add of the last step: a
\* float32 dk from a bfloat16 block
C18_Witness ==
  /\ world_size = MaxP
  /\ args.dtype = "bfloat16"
  /\ pc[MaxP - 1] = "b_kvwait" /\ step[MaxP - 1] = MaxP - 1
  /\ ~loc[MaxP - 1].shift_causal
  /\ DtypeOf(MaxP - 1, loc[MaxP - 1].ptr.dk) = "float32"
  /\ DtypeOf(MaxP - 1, loc[MaxP - 1].ptr.block_dk_buffer) = "bfloat16"

\* the call goes through one of the three entry points without causal=True
NoCausalTrue == args.fn \in EntryPoints /\ args.params.causal # "True"
\* the assert a rank has failed, if any
FailedIn(r, fn) == TraceCount(r, "AssertionError", "", fn) = 1

\* C19: the entry points default causal to False.  A call through an entry
\* point that does not pass causal=True never gets past the asserts: the
\* rank creates no channel, posts no transfer, calls no kernel, saves
\* nothing, and when it can go no further it has failed an assert (the one on
\* causal in stripe_flash_attn_forward unless alibi_slopes was given, which
\* fails earlier).  A rank that has completed forward was called with
\* causal=True and alibi_slopes None (given or by default).
C19_CausalDefaultsFalse ==
  /\ Default.causal = "False"
  /\ \A r \in Ranks :
       /\ NoCausalTrue =>
            /\ pc[r] \in {"init", "func_forward", "fwd_start", "error"}
            /\ pc[r] # "init" => loc[r].hp.causal = "False"
            /\ \A i \in DOMAIN trace[r] : trace[r][i].op \notin RingOps
            /\ sendq[r] = <<>> /\ recvq[r] = <<>> /\ calls[r] = <<>>
            /\ ret[r] = [fwd |-> <<>>, bwd |-> <<>>]
            /\ pc[r] = "error" =>
                 IF Resolved("alibi_slopes") = "None"
                 THEN FailedIn(r, "stripe_flash_attn_forward")
                 ELSE FailedIn(r, "StripeFlashAttnFunc.forward")
       /\ (args.fn \in EntryPoints /\ FwdCompleted(r)) =>
            /\ args.params.causal = "True"
            /\ args.params.alibi_slopes \in {"omitted", "None"}
       /\ (args.fn \in EntryPoints /\ args.params.causal = "True"
           /\ args.params.alibi_slopes \in {"omitted", "None"}) => pc[r] # "error"
  /\ (NoCausalTrue /\ ~CanStep) => \A r \in Ranks : pc[r] = "error"

\* a call that leaves causal out has failed on every rank of a ring
C19_Witness ==
  /\ world_size > 1
  /\ args.fn = "stripe_flash_attn_func"
  /\ args.params.causal = "omitted" /\ args.params.alibi_slopes = "omitted"
  /\ \A r \in Ranks : pc[r] = "error" /\ FailedIn(r, "stripe_flash_attn_forward")

\* the Shifted kernel calls and the slices of softmax_lse rank r has made in
\* backward, by step
ShiftedBwdSteps(r) == ModeSteps(r, "bwd", TRUE)
LseSlices(r, s) ==
  Cardinality({i \in DOMAIN trace[r] : trace[r][i] = Ev("lse_slice", "", "bwd", s)})

\* C20: softmax_lse_1 is recomputed in every Shifted step.  Every backward
\* kernel step resets softmax_lse_1 before the mode test, so the guard
\* `softmax_lse_1 is None` of a Shifted step is always true: a Shifted step
\* makes a new slice softmax_lse[:, :, 1:], in a new buffer, and passes it to
\* the kernel; a Full step makes none and leaves softmax_lse_1 unset.  The
\* slices made so far are one per Shifted kernel call, P - 1 - rank when the
\* loop is over.
C20_LseSliceEveryShiftedStep ==
  /\ [][\A r \in Ranks :
          (pc[r] = "b_kernel" /\ pc'[r] # pc[r]) =>
            LET sh == ShiftCausal(step[r], r)
                new == loc'[r].ptr.softmax_lse_1
                c == calls'[r][Len(calls'[r])]
            IN /\ sh => /\ new \notin DOMAIN mem[r] /\ new \in DOMAIN mem'[r]
                        /\ new # loc[r].ptr.softmax_lse_1
                        /\ mem'[r][new] = BwdLse(mem[r][loc[r].ptr.softmax_lse], TRUE)
                        /\ c.lse = mem'[r][new]
                        /\ Len(c.lse.rows) = SeqLen - 1
                        /\ LseSlices(r, step[r])' = 1 /\ LseSlices(r, step[r]) = 0
               /\ ~sh => /\ new = None
                         /\ c.lse = mem[r][loc[r].ptr.softmax_lse]
                         /\ LseSlices(r, step[r])' = 0
     ]_vars
  /\ [](\A r \in Ranks :
          /\ \A s \in 0 .. world_size - 1 :
               LseSlices(r, s) = IF s \in ShiftedBwdSteps(r) THEN 1 ELSE 0
          /\ TraceCount(r, "lse_slice", "", "bwd") = Cardinality(ShiftedBwdSteps(r))
          /\ BackwardLoopDone(r) =>
               TraceCount(r, "lse_slice", "", "bwd") = world_size - 1 - r)

\* rank 0 of the largest ring has made its second slice, in a buffer other
\* than the first
C20_Witness ==
  /\ world_size = MaxP
  /\ pc[0] = "b_accum" /\ step[0] = 2
  /\ LseSlices(0, 1) = 1 /\ LseSlices(0, 2) = 1
  /\ loc[0].ptr.softmax_lse_1 # None
====
